---- MODULE Spec2Model ----
(***************************************************************************)
(* A model of AsRelease (src/as-release.c): the release record, its locale *)
(* resolver and its three codecs (XML, YAML, binary cache).                *)
(*                                                                         *)
(* Representation of C values:                                             *)
(*   - a gchar* naming a locale, version, URL or markup text is a TLA+     *)
(*     string, the null pointer is NULL;                                   *)
(*   - a guint64 is the sequence of its decimal digits (TLC's integers are *)
(*     32 bits wide, a guint64 is not): <<5,0,0>> is 500;                  *)
(*   - TLC cannot take a string apart, so Spelling gives the characters  *)
(*     of every string that is parsed as a number: "500" is spelled        *)
(*     <<"5","0","0">>. Parsing and formatting work on the characters.     *)
(***************************************************************************)
EXTENDS Integers, Sequences, FiniteSets, TLC

VARIABLES rel, rel2, doc, snap, last

vars == <<rel, rel2, doc, snap, last>>

\* The null pointer of a gchar* / object reference.
NULL == "NULL"

----------------------------------------------------------------------------
\* Enumerations (as-release.h, as-enums.h, as-context.h).

AS_RELEASE_KIND_UNKNOWN == 0
AS_RELEASE_KIND_STABLE == 1
AS_RELEASE_KIND_DEVELOPMENT == 2

AS_SIZE_KIND_UNKNOWN == 0
AS_SIZE_KIND_DOWNLOAD == 1
AS_SIZE_KIND_INSTALLED == 2
AS_SIZE_KIND_LAST == 3

AS_URGENCY_KIND_UNKNOWN == 0
AS_URGENCY_KIND_LOW == 1
AS_URGENCY_KIND_MEDIUM == 2

AS_FORMAT_STYLE_METAINFO == "metainfo"
AS_FORMAT_STYLE_COLLECTION == "collection"

ReleaseKinds == {AS_RELEASE_KIND_UNKNOWN, AS_RELEASE_KIND_STABLE, AS_RELEASE_KIND_DEVELOPMENT}

UrgencyKinds == {AS_URGENCY_KIND_UNKNOWN, AS_URGENCY_KIND_LOW, AS_URGENCY_KIND_MEDIUM}

----------------------------------------------------------------------------
\* guint64 values as decimal digit sequences.

U64_ZERO == <<0>>

\* G_MAXUINT64 = 18446744073709551615
G_MAXUINT64 == <<1,8,4,4,6,7,4,4,0,7,3,7,0,9,5,5,1,6,1,5>>

\* LONG_MAX = 9223372036854775807 (long is 64 bits wide)
LONG_MAX == <<9,2,2,3,3,7,2,0,3,6,8,5,4,7,7,5,8,0,7>>

\* LONG_MAX + 1
LONG_MAX_PLUS1 == <<9,2,2,3,3,7,2,0,3,6,8,5,4,7,7,5,8,0,8>>

U64_500 == <<5,0,0>>

U64_1000 == <<1,0,0,0>>

U64_2048 == <<2,0,4,8>>

\* 2020-01-01T00:00:00Z as unix time
U64_2020 == <<1,5,7,7,8,3,6,8,0,0>>

\* a < b for two digit sequences of the same length
RECURSIVE DigitsLess(_, _)
DigitsLess(a, b) ==
    IF a = <<>> THEN FALSE
    ELSE IF Head(a) # Head(b) THEN Head(a) < Head(b)
    ELSE DigitsLess(Tail(a), Tail(b))

\* a > b for two canonical (no leading zero) digit sequences
NumGreater(a, b) ==
    IF Len(a) # Len(b) THEN Len(a) > Len(b) ELSE DigitsLess(b, a)

\* n > 0
NumPositive(n) == n # U64_ZERO

DigitChars == <<"0", "1", "2", "3", "4", "5", "6", "7", "8", "9">>

IsDigitChar(c) == \E d \in 1..10 : DigitChars[d] = c

DigitOf(c) == (CHOOSE d \in 1..10 : DigitChars[d] = c) - 1

\* The characters of the strings the model parses as numbers.
Spelling ==
    ("" :> <<>>) @@
    ("0" :> <<"0">>) @@
    ("7" :> <<"7">>) @@
    ("12" :> <<"1", "2">>) @@
    ("12x" :> <<"1", "2", "x">>) @@
    ("500" :> <<"5", "0", "0">>) @@
    ("0500" :> <<"0", "5", "0", "0">>) @@
    ("1000" :> <<"1", "0", "0", "0">>) @@
    ("2048" :> <<"2", "0", "4", "8">>) @@
    ("1577836800" :> <<"1", "5", "7", "7", "8", "3", "6", "8", "0", "0">>) @@
    ("9223372036854775807" :>
        <<"9", "2", "2", "3", "3", "7", "2", "0", "3", "6", "8", "5", "4", "7", "7",
          "5", "8", "0", "7">>) @@
    ("9223372036854775808" :>
        <<"9", "2", "2", "3", "3", "7", "2", "0", "3", "6", "8", "5", "4", "7", "7",
          "5", "8", "0", "8">>) @@
    ("18446744073709551615" :>
        <<"1", "8", "4", "4", "6", "7", "4", "4", "0", "7", "3", "7", "0", "9", "5",
          "5", "1", "6", "1", "5">>)

\* g_strdup_printf ("%" G_GUINT64_FORMAT, n): the decimal digits of n
FormatU64(n) ==
    CHOOSE s \in DOMAIN Spelling : Spelling[s] = [i \in 1..Len(n) |-> DigitChars[n[i] + 1]]

\* the longest prefix of s made of decimal digits
RECURSIVE DigitPrefix(_)
DigitPrefix(s) ==
    IF s = <<>> \/ ~IsDigitChar(Head(s)) THEN <<>>
    ELSE <<DigitOf(Head(s))>> \o DigitPrefix(Tail(s))

\* a digit sequence without its leading zeros (<<0>> for zero or no digits)
RECURSIVE Canonical(_)
Canonical(ds) ==
    IF ds = <<>> THEN U64_ZERO
    ELSE IF Head(ds) = 0 /\ Len(ds) > 1 THEN Canonical(Tail(ds))
    ELSE ds

\* the number a string starts with, 0 when it starts with none
LeadingNumber(s) == Canonical(DigitPrefix(Spelling[s]))

----------------------------------------------------------------------------
\* The shared document Context (as-context.c): a locale and a format style.

Locales == {"C", "de", "fr"}

Texts == {"T", "U"}

ContextTable ==
    [ctx_plain |-> [locale |-> NULL, style |-> AS_FORMAT_STYLE_COLLECTION],
     ctx_de    |-> [locale |-> "de", style |-> AS_FORMAT_STYLE_COLLECTION],
     ctx_fr    |-> [locale |-> "fr", style |-> AS_FORMAT_STYLE_METAINFO]]

Contexts == DOMAIN ContextTable

as_context_get_locale(ctx) == ContextTable[ctx].locale

as_context_get_style(ctx) == ContextTable[ctx].style

----------------------------------------------------------------------------
\* GLib containers.

\* an empty GHashTable
EmptyTable == [k \in {} |-> NULL]

\* g_hash_table_lookup: NULL for a missing key (and for a key stored with a
\* NULL value)
g_hash_table_lookup(table, key) ==
    IF key \in DOMAIN table THEN table[key] ELSE NULL

\* g_hash_table_insert: a key already present has its value replaced
g_hash_table_insert(table, key, value) ==
    [k \in (DOMAIN table) \cup {key} |-> IF k = key THEN value ELSE table[k]]

\* g_ptr_array_add
g_ptr_array_add(array, item) == Append(array, item)

----------------------------------------------------------------------------
\* The release record (AsReleasePrivate) and its accessors.

\* g_object_new zero-fills the private data, as_release_init sets the rest
as_release_new ==
    [kind |-> AS_RELEASE_KIND_STABLE,
     version |-> NULL,
     description |-> EmptyTable,
     timestamp |-> U64_ZERO,
     context |-> NULL,
     active_locale_override |-> NULL,
     locations |-> <<>>,
     checksums |-> <<>>,
     size |-> [k \in 0..(AS_SIZE_KIND_LAST - 1) |-> U64_ZERO],
     urgency |-> AS_URGENCY_KIND_UNKNOWN]

as_release_set_kind(r, kind) == [r EXCEPT !.kind = kind]

as_release_set_version(r, version) == [r EXCEPT !.version = version]

as_release_set_timestamp(r, timestamp) == [r EXCEPT !.timestamp = timestamp]

as_release_set_urgency(r, urgency) == [r EXCEPT !.urgency = urgency]

\* g_return_val_if_fail (kind < AS_SIZE_KIND_LAST, 0)
as_release_get_size(r, kind) ==
    IF ~(kind < AS_SIZE_KIND_LAST) THEN U64_ZERO ELSE r.size[kind]

\* as_release_set_size without its second guard, g_return_if_fail (kind != 0)
as_release_set_size_unguarded(r, size, kind) ==
    IF ~(kind < AS_SIZE_KIND_LAST) THEN r
    ELSE [r EXCEPT !.size[kind] = size]

\* both g_return_if_fail guards return before the store
as_release_set_size(r, size, kind) ==
    IF ~(kind < AS_SIZE_KIND_LAST) THEN r
    ELSE IF ~(kind # 0) THEN r
    ELSE [r EXCEPT !.size[kind] = size]

\* as_release_get_active_locale preferring the context to the override
as_release_get_active_locale_context_first(r) ==
    LET locale == IF r.context # NULL
                  THEN as_context_get_locale(r.context)
                  ELSE r.active_locale_override
    IN IF locale = NULL THEN "C" ELSE locale

as_release_get_active_locale(r) ==
    LET locale == IF r.context # NULL /\ r.active_locale_override = NULL
                  THEN as_context_get_locale(r.context)
                  ELSE r.active_locale_override
    IN IF locale = NULL THEN "C" ELSE locale

as_release_set_active_locale(r, locale) ==
    [r EXCEPT !.active_locale_override = locale]

\* as_release_get_description without the fall back to "C"
as_release_get_description_no_fallback(r) ==
    g_hash_table_lookup(r.description, as_release_get_active_locale(r))

as_release_get_description(r) ==
    LET desc == g_hash_table_lookup(r.description, as_release_get_active_locale(r))
    IN IF desc = NULL THEN g_hash_table_lookup(r.description, "C") ELSE desc

as_release_set_description(r, description, locale) ==
    LET loc == IF locale = NULL THEN as_release_get_active_locale(r) ELSE locale
    IN [r EXCEPT !.description = g_hash_table_insert(r.description, loc, description)]

as_release_add_location(r, location) ==
    [r EXCEPT !.locations = g_ptr_array_add(r.locations, location)]

\* the index of the first checksum of the kind, 0 when there is none
FirstChecksumIndex(r, kind) ==
    IF \E i \in 1..Len(r.checksums) : r.checksums[i].kind = kind
    THEN CHOOSE i \in 1..Len(r.checksums) :
            /\ r.checksums[i].kind = kind
            /\ \A j \in 1..(i - 1) : r.checksums[j].kind # kind
    ELSE 0

as_release_get_checksum(r, kind) ==
    IF FirstChecksumIndex(r, kind) = 0 THEN NULL
    ELSE r.checksums[FirstChecksumIndex(r, kind)]

as_release_add_checksum(r, cs) ==
    [r EXCEPT !.checksums = g_ptr_array_add(r.checksums, cs)]

\* as_release_set_context without the reset of the locale override
as_release_set_context_keeps_override(r, context) ==
    [r EXCEPT !.context = context]

as_release_set_context(r, context) ==
    [r EXCEPT !.context = context, !.active_locale_override = NULL]

----------------------------------------------------------------------------
\* String conversions.

as_release_kind_to_string(kind) ==
    IF kind = AS_RELEASE_KIND_STABLE THEN "stable"
    ELSE IF kind = AS_RELEASE_KIND_DEVELOPMENT THEN "development"
    ELSE "unknown"

as_release_kind_from_string(kind_str) ==
    IF kind_str = "stable" THEN AS_RELEASE_KIND_STABLE
    ELSE IF kind_str = "development" THEN AS_RELEASE_KIND_DEVELOPMENT
    ELSE AS_RELEASE_KIND_UNKNOWN

as_size_kind_to_string(size_kind) ==
    IF size_kind = AS_SIZE_KIND_INSTALLED THEN "installed"
    ELSE IF size_kind = AS_SIZE_KIND_DOWNLOAD THEN "download"
    ELSE "unknown"

as_size_kind_from_string(size_kind) ==
    IF size_kind = "download" THEN AS_SIZE_KIND_DOWNLOAD
    ELSE IF size_kind = "installed" THEN AS_SIZE_KIND_INSTALLED
    ELSE AS_SIZE_KIND_UNKNOWN

as_urgency_kind_to_string(urgency) ==
    IF urgency = AS_URGENCY_KIND_LOW THEN "low"
    ELSE IF urgency = AS_URGENCY_KIND_MEDIUM THEN "medium"
    ELSE "unknown"

as_urgency_kind_from_string(urgency_str) ==
    IF urgency_str = "low" THEN AS_URGENCY_KIND_LOW
    ELSE IF urgency_str = "medium" THEN AS_URGENCY_KIND_MEDIUM
    ELSE AS_URGENCY_KIND_UNKNOWN

\* atol (prop), stored into a guint64. A number above LONG_MAX is out of the
\* range of long, where atol's behaviour is undefined: a C library that
\* goes through strtol returns LONG_MAX, one that accumulates the digits
\* wraps around, which stored into a guint64 is the number itself (the
\* strings of the model hold no number above G_MAXUINT64).
atol(s) ==
    LET v == LeadingNumber(s)
    IN IF NumGreater(v, LONG_MAX) THEN {LONG_MAX, v} ELSE {v}

\* g_ascii_strtoull (content, NULL, 10): G_MAXUINT64 on overflow
g_ascii_strtoull(s) ==
    LET v == LeadingNumber(s)
    IN IF NumGreater(v, G_MAXUINT64) THEN G_MAXUINT64 ELSE v

ValidDates ==
    {"2020-01-01", "2020-01-01T00:00:00Z", "1970-01-01T00:08:20Z",
     "1970-01-01T00:16:40Z", "1969-12-31T23:59:59Z"}

\* as_iso8601_to_datetime: NULL for a string that is no ISO-8601 date (the
\* GDateTime is named by the string it was parsed from)
as_iso8601_to_datetime(str) == IF str \in ValidDates THEN str ELSE NULL

\* g_date_time_to_unix, stored into a guint64
g_date_time_to_unix(time) ==
    CASE time \in {"2020-01-01", "2020-01-01T00:00:00Z"} -> U64_2020
      [] time = "1970-01-01T00:08:20Z" -> U64_500
      [] time = "1970-01-01T00:16:40Z" -> U64_1000
      [] time = "1969-12-31T23:59:59Z" -> G_MAXUINT64

\* g_time_val_to_iso8601 of tv_sec = (glong) timestamp: NULL when the time
\* is outside the years gmtime can represent
g_time_val_to_iso8601(timestamp) ==
    CASE timestamp = U64_2020 -> "2020-01-01T00:00:00Z"
      [] timestamp = U64_500 -> "1970-01-01T00:08:20Z"
      [] timestamp = U64_1000 -> "1970-01-01T00:16:40Z"
      [] timestamp = G_MAXUINT64 -> "1969-12-31T23:59:59Z"
      [] OTHER -> NULL

----------------------------------------------------------------------------
\* XML nodes: props is the list of attributes, in document order, children
\* the list of child elements.

XmlHasProp(node, name) == \E i \in 1..Len(node.props) : node.props[i].name = name

\* xmlGetProp: the value of the first attribute of that name, NULL if none
xmlGetProp(node, name) ==
    IF XmlHasProp(node, name)
    THEN node.props[CHOOSE i \in 1..Len(node.props) :
                       /\ node.props[i].name = name
                       /\ \A j \in 1..(i - 1) : node.props[j].name # name].value
    ELSE NULL

\* xmlNewProp: an attribute created with a NULL value reads back as ""
xmlNewProp(node, name, value) ==
    [node EXCEPT !.props = Append(node.props,
        [name |-> name, value |-> IF value = NULL THEN "" ELSE value])]

\* the checksum kinds as_checksum_kind_from_string knows
ChecksumKindNames == {"sha1", "sha256"}

\* as_checksum_load_from_xml: fails for a checksum of no known type
as_checksum_load_from_xml(child) == child.type \in ChecksumKindNames

\* the AsChecksum a successful as_checksum_load_from_xml fills
ChecksumOfXml(child) == [kind |-> child.type, value |-> child.content]

\* as_checksum_to_xml_node
as_checksum_to_xml_node(cs) ==
    [name |-> "checksum", type |-> cs.kind, content |-> cs.value]

\* as_xmldata_get_node_locale: the node's language attribute, "C" without one
as_xmldata_get_node_locale(child) == IF child.lang = NULL THEN "C" ELSE child.lang

\* the description child of a release element, under either format style
LoadXmlDescription(r, ctx, child) ==
    IF as_context_get_style(ctx) = AS_FORMAT_STYLE_COLLECTION
    THEN LET lang == as_xmldata_get_node_locale(child)
         IN IF lang # NULL
            THEN as_release_set_description(r, child.content, lang)
            ELSE r
    ELSE \* as_xml_parse_metainfo_description_node calls back once per locale
         as_release_set_description(r, child.content, as_xmldata_get_node_locale(child))

\* one iteration of the loop that adds the checksum of a checksum child
\* whether or not as_checksum_load_from_xml succeeded
LoadXmlChild_unchecked(r, ctx, child) ==
    IF child.name = "location"
    THEN as_release_add_location(r, child.content)
    ELSE IF child.name = "checksum"
    THEN as_release_add_checksum(r, ChecksumOfXml(child))
    ELSE IF child.name = "size"
    THEN LET s_kind == as_size_kind_from_string(child.type)
         IN IF s_kind # AS_SIZE_KIND_UNKNOWN
            THEN LET size == g_ascii_strtoull(child.content)
                 IN IF NumPositive(size)
                    THEN as_release_set_size(r, size, s_kind)
                    ELSE r
            ELSE r
    ELSE IF child.name = "description"
    THEN LoadXmlDescription(r, ctx, child)
    ELSE r

\* one iteration of the loop over node->children
LoadXmlChild(r, ctx, child) ==
    IF child.name = "location"
    THEN as_release_add_location(r, child.content)
    ELSE IF child.name = "checksum"
    THEN IF as_checksum_load_from_xml(child)
         THEN as_release_add_checksum(r, ChecksumOfXml(child))
         ELSE r
    ELSE IF child.name = "size"
    THEN LET s_kind == as_size_kind_from_string(child.type)
         IN IF s_kind # AS_SIZE_KIND_UNKNOWN
            THEN LET size == g_ascii_strtoull(child.content)
                 IN IF NumPositive(size)
                    THEN as_release_set_size(r, size, s_kind)
                    ELSE r
            ELSE r
    ELSE IF child.name = "description"
    THEN LoadXmlDescription(r, ctx, child)
    ELSE r

RECURSIVE LoadXmlChildren(_, _, _)
LoadXmlChildren(r, ctx, children) ==
    IF children = <<>> THEN r
    ELSE LoadXmlChildren(LoadXmlChild(r, ctx, Head(children)), ctx, Tail(children))

\* the values atol can return for the timestamp attribute of the node
XmlTimestampOutcomes(node) ==
    IF XmlHasProp(node, "timestamp") THEN atol(xmlGetProp(node, "timestamp"))
    ELSE {U64_ZERO}

\* as_release_load_from_xml reading the date attribute after the timestamp
\* attribute
as_release_load_from_xml_date_last(r, ctx, node, ts) ==
    LET r1 == as_release_set_context(r, ctx)
        r2 == IF xmlGetProp(node, "type") # NULL
              THEN [r1 EXCEPT !.kind = as_release_kind_from_string(xmlGetProp(node, "type"))]
              ELSE r1
        r3 == as_release_set_version(r2, xmlGetProp(node, "version"))
        r4 == IF XmlHasProp(node, "timestamp")
              THEN [r3 EXCEPT !.timestamp = ts]
              ELSE r3
        r5 == IF xmlGetProp(node, "date") # NULL
              THEN LET time == as_iso8601_to_datetime(xmlGetProp(node, "date"))
                   IN IF time # NULL
                      THEN [r4 EXCEPT !.timestamp = g_date_time_to_unix(time)]
                      ELSE r4
              ELSE r4
        r6 == IF xmlGetProp(node, "urgency") # NULL
              THEN [r5 EXCEPT !.urgency = as_urgency_kind_from_string(xmlGetProp(node, "urgency"))]
              ELSE r5
    IN LoadXmlChildren(r6, ctx, node.children)

\* as_release_load_from_xml, atol having returned ts for the timestamp
\* attribute (when there is one)
as_release_load_from_xml(r, ctx, node, ts) ==
    LET r1 == as_release_set_context(r, ctx)
        r2 == IF xmlGetProp(node, "type") # NULL
              THEN [r1 EXCEPT !.kind = as_release_kind_from_string(xmlGetProp(node, "type"))]
              ELSE r1
        r3 == as_release_set_version(r2, xmlGetProp(node, "version"))
        r4 == IF xmlGetProp(node, "date") # NULL
              THEN LET time == as_iso8601_to_datetime(xmlGetProp(node, "date"))
                   IN IF time # NULL
                      THEN [r3 EXCEPT !.timestamp = g_date_time_to_unix(time)]
                      ELSE r3
              ELSE r3
        r5 == IF XmlHasProp(node, "timestamp")
              THEN [r4 EXCEPT !.timestamp = ts]
              ELSE r4
        r6 == IF xmlGetProp(node, "urgency") # NULL
              THEN [r5 EXCEPT !.urgency = as_urgency_kind_from_string(xmlGetProp(node, "urgency"))]
              ELSE r5
    IN LoadXmlChildren(r6, ctx, node.children)

\* the keys of a description table that hold a text, in a fixed order
LocaleOrder == <<"C", "de", "fr">>

StoredLocales(table) ==
    LET Stored(l) == g_hash_table_lookup(table, l) # NULL
    IN SelectSeq(LocaleOrder, Stored)

\* as_xml_add_description_node: one description child per stored locale
as_xml_add_description_node(node, table) ==
    LET ls == StoredLocales(table)
    IN [node EXCEPT !.children = node.children \o
          [i \in 1..Len(ls) |->
             [name |-> "description",
              lang |-> IF ls[i] = "C" THEN NULL ELSE ls[i],
              content |-> table[ls[i]]]]]

\* the size kinds 0 .. AS_SIZE_KIND_LAST - 1, as the loops walk them
SizeKindOrder == [j \in 1..AS_SIZE_KIND_LAST |-> j - 1]

\* as_release_to_xml_node: the release element added to the root
as_release_to_xml_node(r, ctx) ==
    LET n0 == [props |-> <<>>, children |-> <<>>]
        n1 == xmlNewProp(n0, "type", as_release_kind_to_string(r.kind))
        n2 == xmlNewProp(n1, "version", r.version)
        n3 == IF NumPositive(r.timestamp)
              THEN IF as_context_get_style(ctx) = AS_FORMAT_STYLE_COLLECTION
                   THEN xmlNewProp(n2, "timestamp", FormatU64(r.timestamp))
                   ELSE xmlNewProp(n2, "date", g_time_val_to_iso8601(r.timestamp))
              ELSE n2
        n4 == IF r.urgency # AS_URGENCY_KIND_UNKNOWN
              THEN xmlNewProp(n3, "urgency", as_urgency_kind_to_string(r.urgency))
              ELSE n3
        n5 == [n4 EXCEPT !.children = n4.children \o
                 [j \in 1..Len(r.locations) |->
                    [name |-> "location", content |-> r.locations[j]]]]
        n6 == [n5 EXCEPT !.children = n5.children \o
                 [j \in 1..Len(r.checksums) |-> as_checksum_to_xml_node(r.checksums[j])]]
        HasSize(j) == NumPositive(as_release_get_size(r, j))
        kinds == SelectSeq(SizeKindOrder, HasSize)
        n7 == [n6 EXCEPT !.children = n6.children \o
                 [j \in 1..Len(kinds) |->
                    [name |-> "size",
                     type |-> as_size_kind_to_string(kinds[j]),
                     content |-> FormatU64(as_release_get_size(r, kinds[j]))]]]
    IN as_xml_add_description_node(n7, r.description)

----------------------------------------------------------------------------
\* YAML nodes: a release mapping is the list of its entries in document
\* order. An entry has a key and a scalar value; the description entry holds
\* a localized table, the locations entry a list of items.

YamlEntry(key, value) ==
    [key |-> key, value |-> value, localized |-> EmptyTable, items |-> <<>>]

\* as_yaml_emit_entry: nothing is emitted for a NULL value
as_yaml_emit_entry(node, key, value) ==
    IF value = NULL THEN node ELSE Append(node, YamlEntry(key, value))

\* as_yaml_emit_entry_timestamp
as_yaml_emit_entry_timestamp(node, key, unixtime) ==
    Append(node, YamlEntry(key, FormatU64(unixtime)))

\* as_yaml_emit_long_localized_entry: the texts of all stored locales
as_yaml_emit_long_localized_entry(node, key, table) ==
    LET ls == StoredLocales(table)
    IN IF ls = <<>> THEN node
       ELSE Append(node, [key |-> key, value |-> NULL,
                          localized |-> [l \in {ls[i] : i \in 1..Len(ls)} |-> table[l]],
                          items |-> <<>>])

\* as_yaml_get_localized_value: the text for the context's locale, else the
\* untranslated one, else NULL
as_yaml_get_localized_value(ctx, entry) ==
    LET locale == IF as_context_get_locale(ctx) = NULL THEN "C"
                  ELSE as_context_get_locale(ctx)
    IN IF g_hash_table_lookup(entry.localized, locale) # NULL
       THEN g_hash_table_lookup(entry.localized, locale)
       ELSE g_hash_table_lookup(entry.localized, "C")

\* one iteration of the loop over the keys of the mapping, atol having
\* returned ts for a unix-timestamp value
LoadYamlEntry(r, ctx, n, ts) ==
    LET key == n.key
        value == n.value
    IN IF key = "unix-timestamp"
       THEN [r EXCEPT !.timestamp = ts]
       ELSE IF key = "date"
       THEN LET time == as_iso8601_to_datetime(value)
            IN IF time # NULL
               THEN [r EXCEPT !.timestamp = g_date_time_to_unix(time)]
               ELSE r
       ELSE IF key = "type"
       THEN [r EXCEPT !.kind = as_release_kind_from_string(value)]
       ELSE IF key = "version"
       THEN as_release_set_version(r, value)
       ELSE IF key = "urgency"
       THEN [r EXCEPT !.urgency = as_urgency_kind_from_string(value)]
       ELSE IF key = "description"
       THEN as_release_set_description(r, as_yaml_get_localized_value(ctx, n), NULL)
       ELSE r

RECURSIVE LoadYamlEntries(_, _, _, _)
LoadYamlEntries(r, ctx, entries, ts) ==
    IF entries = <<>> THEN r
    ELSE LoadYamlEntries(LoadYamlEntry(r, ctx, Head(entries), ts), ctx, Tail(entries), ts)

\* the values atol can return for the unix-timestamp entry of the mapping
YamlTimestampOutcomes(node) ==
    IF \E i \in 1..Len(node) : node[i].key = "unix-timestamp"
    THEN atol((node[CHOOSE i \in 1..Len(node) : node[i].key = "unix-timestamp"]).value)
    ELSE {U64_ZERO}

\* as_release_load_from_yaml reading the date key before the other keys, as
\* the XML load reads the date attribute before the timestamp attribute
as_release_load_from_yaml_date_first(r, ctx, node, ts) ==
    LET IsDate(n) == n.key = "date"
        NotDate(n) == n.key # "date"
    IN LoadYamlEntries(as_release_set_context(r, ctx), ctx,
                       SelectSeq(node, IsDate) \o SelectSeq(node, NotDate), ts)

\* as_release_load_from_yaml
as_release_load_from_yaml(r, ctx, node, ts) ==
    LoadYamlEntries(as_release_set_context(r, ctx), ctx, node, ts)

\* as_release_emit_yaml: the entries of the emitted mapping
as_release_emit_yaml(r, ctx) ==
    LET y1 == as_yaml_emit_entry(<<>>, "version", r.version)
        y2 == as_yaml_emit_entry(y1, "type", as_release_kind_to_string(r.kind))
        y3 == IF NumPositive(r.timestamp)
              THEN IF as_context_get_style(ctx) = AS_FORMAT_STYLE_COLLECTION
                   THEN as_yaml_emit_entry_timestamp(y2, "unix-timestamp", r.timestamp)
                   ELSE as_yaml_emit_entry(y2, "date", g_time_val_to_iso8601(r.timestamp))
              ELSE y2
        y4 == IF r.urgency # AS_URGENCY_KIND_UNKNOWN
              THEN as_yaml_emit_entry(y3, "urgency", as_urgency_kind_to_string(r.urgency))
              ELSE y3
        y5 == as_yaml_emit_long_localized_entry(y4, "description", r.description)
    IN IF Len(r.locations) > 0
       THEN Append(y5, [key |-> "locations", value |-> NULL,
                        localized |-> EmptyTable, items |-> r.locations])
       ELSE y5

----------------------------------------------------------------------------
\* The binary cache: a cache entry is a dictionary from the keys it holds
\* to their values. A maybe-string is <<>> (nothing) or <<str>>.

\* as_variant_mstring_new
as_variant_mstring_new(str) == IF str = NULL THEN <<>> ELSE <<str>>

\* as_variant_get_dict_mstr: NULL for a missing key and for nothing
as_variant_get_dict_mstr(dict, key) ==
    IF key \in DOMAIN dict
    THEN IF dict[key] = <<>> THEN NULL ELSE dict[key][1]
    ELSE NULL

\* as_variant_get_dict_uint32: 0 for a missing key
as_variant_get_dict_uint32(dict, key) ==
    IF key \in DOMAIN dict THEN dict[key] ELSE 0

\* g_variant_get_uint64 of g_variant_dict_lookup_value: the lookup returns
\* NULL for a missing key and g_return_val_if_fail then returns 0
LookupUint64(dict, key) ==
    IF key \in DOMAIN dict THEN dict[key] ELSE U64_ZERO

\* how g_variant_get_uint64 and g_variant_unref of the looked up value end.
\* For a missing key the value is NULL, which neither function accepts:
\* their g_return_if_fail checks log a critical and return ("critical"), or
\* the process ends there ("abort": criticals are fatal, or the checks are
\* compiled out and NULL is dereferenced)
LookupUint64Outcomes(dict, key) ==
    IF key \in DOMAIN dict THEN {"ok"} ELSE {"critical", "abort"}

\* g_variant_builder_add to a builder of G_VARIANT_TYPE_DICTIONARY: the
\* builder collects the entries in the order they are added, and an entry
\* whose key was added before is one more entry
g_variant_builder_add(builder, key, value) ==
    Append(builder, [key |-> key, value |-> value])

\* as_checksum_to_variant: one entry, keyed by the checksum's kind
as_checksum_to_variant(cs, builder) == g_variant_builder_add(builder, cs.kind, cs.value)

\* as_checksum_set_from_variant: the checksum of a cache entry
as_checksum_set_from_variant(inner_child) ==
    [kind |-> inner_child.key, value |-> inner_child.value]

\* the entries of a builder without those of one key
WithoutKey(builder, key) ==
    LET Other(e) == e.key # key
    IN SelectSeq(builder, Other)

\* the loop over the checksums with a keyed builder, in which a checksum
\* replaces the entry an earlier checksum of its kind added
RECURSIVE BuildChecksumsKeyed(_, _)
BuildChecksumsKeyed(checksums, builder) ==
    IF checksums = <<>> THEN builder
    ELSE BuildChecksumsKeyed(Tail(checksums),
            as_checksum_to_variant(Head(checksums),
                                   WithoutKey(builder, Head(checksums).kind)))

\* the loop of as_release_to_variant over the checksums of the record
RECURSIVE BuildChecksums(_, _)
BuildChecksums(checksums, builder) ==
    IF checksums = <<>> THEN builder
    ELSE BuildChecksums(Tail(checksums), as_checksum_to_variant(Head(checksums), builder))

RECURSIVE BuildSizes(_, _, _)
BuildSizes(r, kinds, builder) ==
    IF kinds = <<>> THEN builder
    ELSE BuildSizes(r, Tail(kinds),
            IF NumPositive(as_release_get_size(r, Head(kinds)))
            THEN g_variant_builder_add(builder, Head(kinds),
                                       as_release_get_size(r, Head(kinds)))
            ELSE builder)

\* a dictionary with one more key, when the key has a value to store
WithKey(dict, present, key, value) ==
    IF present THEN dict @@ (key :> value) ELSE dict

\* as_release_to_variant: the cache entry added to the builder
\* as_release_to_variant storing the text of the active locale only, without
\* the fall back of as_release_get_description
as_release_to_variant_active_only(r) ==
    LET checksum_b == BuildChecksums(r.checksums, <<>>)
        sizes_b == BuildSizes(r, SizeKindOrder, <<>>)
        rel_b == [kind |-> r.kind,
                  version |-> as_variant_mstring_new(r.version),
                  timestamp |-> r.timestamp,
                  urgency |-> r.urgency,
                  description |-> as_variant_mstring_new(
                      g_hash_table_lookup(r.description, as_release_get_active_locale(r)))]
        v1 == WithKey(rel_b, Len(r.locations) > 0, "locations", r.locations)
        v2 == WithKey(v1, Len(r.checksums) > 0, "checksums", checksum_b)
    IN WithKey(v2, sizes_b # <<>>, "sizes", sizes_b)

as_release_to_variant(r) ==
    LET checksum_b == BuildChecksums(r.checksums, <<>>)
        sizes_b == BuildSizes(r, SizeKindOrder, <<>>)
        rel_b == [kind |-> r.kind,
                  version |-> as_variant_mstring_new(r.version),
                  timestamp |-> r.timestamp,
                  urgency |-> r.urgency,
                  description |-> as_variant_mstring_new(as_release_get_description(r))]
        \* as_variant_from_string_ptrarray returns NULL for an empty array
        v1 == WithKey(rel_b, Len(r.locations) > 0, "locations", r.locations)
        v2 == WithKey(v1, Len(r.checksums) > 0, "checksums", checksum_b)
    IN WithKey(v2, sizes_b # <<>>, "sizes", sizes_b)

RECURSIVE AddLocations(_, _)
AddLocations(r, strings) ==
    IF strings = <<>> THEN r
    ELSE AddLocations(as_release_add_location(r, Head(strings)), Tail(strings))

\* as_variant_to_string_ptrarray_by_dict: the strings are added to the array
as_variant_to_string_ptrarray_by_dict(r, dict, key) ==
    IF key \in DOMAIN dict THEN AddLocations(r, dict[key]) ELSE r

RECURSIVE LoadSizes(_, _)
LoadSizes(r, entries) ==
    IF entries = <<>> THEN r
    ELSE LoadSizes(as_release_set_size(r, Head(entries).value, Head(entries).key),
                   Tail(entries))

\* the loop over the checksums of an entry replacing the checksums of the
\* record instead of adding to them
LoadChecksums_replacing(r, entries) ==
    [r EXCEPT !.checksums =
        [i \in 1..Len(entries) |-> as_checksum_set_from_variant(entries[i])]]

RECURSIVE LoadChecksums(_, _)
LoadChecksums(r, entries) ==
    IF entries = <<>> THEN r
    ELSE LoadChecksums(as_release_add_checksum(r, as_checksum_set_from_variant(Head(entries))),
                       Tail(entries))

\* as_release_set_from_variant without the call of as_release_set_active_locale
as_release_set_from_variant_no_locale(r, variant, locale) ==
    LET r2 == [r EXCEPT !.kind = as_variant_get_dict_uint32(variant, "kind")]
        r3 == as_release_set_version(r2, as_variant_get_dict_mstr(variant, "version"))
        r4 == [r3 EXCEPT !.timestamp = LookupUint64(variant, "timestamp")]
        r5 == [r4 EXCEPT !.urgency = as_variant_get_dict_uint32(variant, "urgency")]
        r6 == as_release_set_description(r5,
                  as_variant_get_dict_mstr(variant, "description"), locale)
        r7 == as_variant_to_string_ptrarray_by_dict(r6, variant, "locations")
        r8 == IF "sizes" \in DOMAIN variant THEN LoadSizes(r7, variant["sizes"]) ELSE r7
    IN IF "checksums" \in DOMAIN variant THEN LoadChecksums(r8, variant["checksums"]) ELSE r8

\* as_release_set_from_variant without the loop over the sizes
as_release_set_from_variant_no_sizes(r, variant, locale) ==
    LET r1 == as_release_set_active_locale(r, locale)
        r2 == [r1 EXCEPT !.kind = as_variant_get_dict_uint32(variant, "kind")]
        r3 == as_release_set_version(r2, as_variant_get_dict_mstr(variant, "version"))
        r4 == [r3 EXCEPT !.timestamp = LookupUint64(variant, "timestamp")]
        r5 == [r4 EXCEPT !.urgency = as_variant_get_dict_uint32(variant, "urgency")]
        r6 == as_release_set_description(r5,
                  as_variant_get_dict_mstr(variant, "description"), locale)
        r7 == as_variant_to_string_ptrarray_by_dict(r6, variant, "locations")
    IN IF "checksums" \in DOMAIN variant THEN LoadChecksums(r7, variant["checksums"]) ELSE r7

\* as_release_set_from_variant
as_release_set_from_variant(r, variant, locale) ==
    LET r1 == as_release_set_active_locale(r, locale)
        r2 == [r1 EXCEPT !.kind = as_variant_get_dict_uint32(variant, "kind")]
        r3 == as_release_set_version(r2, as_variant_get_dict_mstr(variant, "version"))
        r4 == [r3 EXCEPT !.timestamp = LookupUint64(variant, "timestamp")]
        r5 == [r4 EXCEPT !.urgency = as_variant_get_dict_uint32(variant, "urgency")]
        r6 == as_release_set_description(r5,
                  as_variant_get_dict_mstr(variant, "description"), locale)
        r7 == as_variant_to_string_ptrarray_by_dict(r6, variant, "locations")
        r8 == IF "sizes" \in DOMAIN variant THEN LoadSizes(r7, variant["sizes"]) ELSE r7
    IN IF "checksums" \in DOMAIN variant THEN LoadChecksums(r8, variant["checksums"]) ELSE r8

----------------------------------------------------------------------------
\* The state machine.
\*   rel   the release record the caller builds and mutates
\*   rel2  a second record, created empty and loaded from the document
\*   doc   the document last serialized from rel ([fmt |-> "none"]: none yet)
\*   snap  rel as it was when doc was serialized
\*   last  the last operation called, with the arguments the properties
\*         below refer to ([op |-> "set"] for a plain field accessor)
\* A record is built, then transcoded: the accessors of rel run before a
\* document has been serialized from it.

MaxLocations == 2

MaxChecksums == 2

NoDoc == [fmt |-> "none"]

\* the process has not ended in a cache load
Alive == ~(last.op = "as_release_set_from_variant" /\ last.status = "abort")

Building == doc = NoDoc /\ Alive

Versions == {"", "1.2"}

Urls == {"http://a", "http://b"}

Timestamps == {U64_ZERO, U64_1000, LONG_MAX, LONG_MAX_PLUS1}

Sizes == {U64_ZERO, U64_2048, G_MAXUINT64}

\* the AsSizeKind values a caller may pass, valid or not
SizeKindArgs == 0..(AS_SIZE_KIND_LAST + 1)

Init ==
    /\ rel = as_release_new
    /\ rel2 = as_release_new
    /\ doc = NoDoc
    /\ snap = as_release_new
    /\ last = [op |-> "as_release_new"]

SetKind(kind) ==
    /\ Building
    /\ rel' = as_release_set_kind(rel, kind)
    /\ last' = [op |-> "set"]
    /\ UNCHANGED <<rel2, doc, snap>>

SetVersion(version) ==
    /\ Building
    /\ rel' = as_release_set_version(rel, version)
    /\ last' = [op |-> "set"]
    /\ UNCHANGED <<rel2, doc, snap>>

SetTimestamp(timestamp) ==
    /\ Building
    /\ rel' = as_release_set_timestamp(rel, timestamp)
    /\ last' = [op |-> "set"]
    /\ UNCHANGED <<rel2, doc, snap>>

SetUrgency(urgency) ==
    /\ Building
    /\ rel' = as_release_set_urgency(rel, urgency)
    /\ last' = [op |-> "set"]
    /\ UNCHANGED <<rel2, doc, snap>>

SetSize(size, kind) ==
    /\ Building
    /\ rel' = as_release_set_size(rel, size, kind)
    /\ last' = [op |-> "as_release_set_size", size |-> size, kind |-> kind]
    /\ UNCHANGED <<rel2, doc, snap>>

SetDescription(description, locale) ==
    /\ Building
    /\ rel' = as_release_set_description(rel, description, locale)
    /\ last' = [op |-> "set"]
    /\ UNCHANGED <<rel2, doc, snap>>

SetActiveLocale(locale) ==
    /\ Building
    /\ rel' = as_release_set_active_locale(rel, locale)
    /\ last' = [op |-> "set"]
    /\ UNCHANGED <<rel2, doc, snap>>

SetContext(ctx) ==
    /\ Building
    /\ rel' = as_release_set_context(rel, ctx)
    /\ last' = [op |-> "as_release_set_context", target |-> "rel", ctx |-> ctx,
                had_override |-> rel.active_locale_override # NULL]
    /\ UNCHANGED <<rel2, doc, snap>>

AddLocation(location) ==
    /\ Building
    /\ Len(rel.locations) < MaxLocations
    /\ rel' = as_release_add_location(rel, location)
    /\ last' = [op |-> "set"]
    /\ UNCHANGED <<rel2, doc, snap>>

AddChecksum(cs) ==
    /\ Building
    /\ Len(rel.checksums) < MaxChecksums
    /\ rel' = as_release_add_checksum(rel, cs)
    /\ last' = [op |-> "set"]
    /\ UNCHANGED <<rel2, doc, snap>>

\* as_release_load_from_xml of a node of the document being parsed, into rel
LoadFromXml(ctx, node) ==
    /\ Building
    /\ \E ts \in XmlTimestampOutcomes(node) :
          rel' = as_release_load_from_xml(rel, ctx, node, ts)
    /\ Len(rel'.locations) <= MaxLocations
    /\ Len(rel'.checksums) <= MaxChecksums
    /\ last' = [op |-> "as_release_load_from_xml", target |-> "rel", ctx |-> ctx,
                node |-> node, had_override |-> rel.active_locale_override # NULL,
                prior |-> rel, ret |-> TRUE]
    /\ UNCHANGED <<rel2, doc, snap>>

\* as_release_to_xml_node of rel
ToXmlNode(ctx) ==
    /\ Building
    /\ doc' = [fmt |-> "xml", ctx |-> ctx, node |-> as_release_to_xml_node(rel, ctx)]
    /\ snap' = rel
    /\ last' = [op |-> "as_release_to_xml_node", ctx |-> ctx]
    /\ UNCHANGED <<rel, rel2>>

\* as_release_load_from_xml of the serialized element into a new record
ReloadFromXml(ctx) ==
    /\ doc.fmt = "xml"
    /\ \E ts \in XmlTimestampOutcomes(doc.node) :
          rel2' = as_release_load_from_xml(as_release_new, ctx, doc.node, ts)
    /\ last' = [op |-> "as_release_load_from_xml", target |-> "rel2", ctx |-> ctx,
                node |-> doc.node, had_override |-> FALSE, prior |-> as_release_new]
    /\ UNCHANGED <<rel, doc, snap>>

\* The contexts of the XML and YAML documents: one of each format style.
DocContexts == {"ctx_de", "ctx_fr"}

\* The XML round trip: a record is built, serialized and reloaded.
NextXml ==
    \/ \E kind \in ReleaseKinds : SetKind(kind)
    \/ \E version \in Versions \cup {NULL} : SetVersion(version)
    \/ \E timestamp \in Timestamps : SetTimestamp(timestamp)
    \/ \E urgency \in UrgencyKinds : SetUrgency(urgency)
    \/ \E size \in Sizes, kind \in {AS_SIZE_KIND_DOWNLOAD, AS_SIZE_KIND_INSTALLED} :
          SetSize(size, kind)
    \/ \E location \in Urls : AddLocation(location)
    \/ \E ctx \in DocContexts : ToXmlNode(ctx)
    \/ \E ctx \in DocContexts : ReloadFromXml(ctx)

SpecXml == Init /\ [][NextXml]_vars

----------------------------------------------------------------------------
\* The release elements a document may hold.

Prop(name, value) == <<[name |-> name, value |-> value]>>

TypeProps == {<<>>, Prop("type", "development"), Prop("type", "bogus")}

VersionProps == {<<>>, Prop("version", "1.2")}

DateProps == {<<>>, Prop("date", "2020-01-01"), Prop("date", "yesterday")}

TimestampProps ==
    {<<>>, Prop("timestamp", "500"), Prop("timestamp", "12x"),
     Prop("timestamp", "9223372036854775808")}

UrgencyProps == {<<>>, Prop("urgency", "low")}

\* the attributes in the order the loader reads them, and in the reverse order
XmlPropLists ==
    {t \o v \o d \o ts \o u : t \in TypeProps, v \in VersionProps, d \in DateProps,
                             ts \in TimestampProps, u \in UrgencyProps}
    \cup
    {u \o ts \o d \o v \o t : t \in TypeProps, v \in VersionProps, d \in DateProps,
                             ts \in TimestampProps, u \in UrgencyProps}

XmlChildren ==
    {[name |-> "location", content |-> "http://a"],
     [name |-> "checksum", type |-> "sha1", content |-> "aa"],
     [name |-> "checksum", type |-> "md5", content |-> "bb"],
     [name |-> "size", type |-> "download", content |-> "2048"],
     [name |-> "size", type |-> "installed", content |-> "0"],
     [name |-> "size", type |-> "bogus", content |-> "7"],
     [name |-> "size", type |-> NULL, content |-> "7"],
     [name |-> "description", lang |-> "de", content |-> "T"],
     [name |-> "comment", content |-> "x"]}

MaxChildren == 2

XmlChildLists ==
    UNION {[1..n -> XmlChildren] : n \in 0..MaxChildren}

\* elements with every combination of attributes and no child, and elements
\* with every list of children under two attribute lists
XmlInputs ==
    {[props |-> ps, children |-> <<>>] : ps \in XmlPropLists}
    \cup
    {[props |-> ps, children |-> cs] :
        ps \in {Prop("version", "1.2"),
                Prop("date", "yesterday") \o Prop("version", "1.2") \o Prop("urgency", "low")},
        cs \in XmlChildLists}

\* Loading release elements: a new record, given a prior timestamp and prior
\* sizes, is populated by one load and mutated afterwards.
NextXmlLoad ==
    \/ \E timestamp \in Timestamps : SetTimestamp(timestamp)
    \/ \E size \in Sizes, kind \in {AS_SIZE_KIND_DOWNLOAD, AS_SIZE_KIND_INSTALLED} :
          SetSize(size, kind)
    \/ \E ctx \in DocContexts, node \in XmlInputs :
          rel.context = NULL /\ LoadFromXml(ctx, node)

SpecXmlLoad == Init /\ [][NextXmlLoad]_vars

----------------------------------------------------------------------------
\* The YAML codec's operations.

\* as_release_load_from_yaml of a mapping of the document being parsed
LoadFromYaml(ctx, node) ==
    /\ Building
    /\ \E ts \in YamlTimestampOutcomes(node) :
          rel' = as_release_load_from_yaml(rel, ctx, node, ts)
    /\ last' = [op |-> "as_release_load_from_yaml", target |-> "rel", ctx |-> ctx,
                node |-> node, had_override |-> rel.active_locale_override # NULL,
                prior |-> rel]
    /\ UNCHANGED <<rel2, doc, snap>>

\* as_release_emit_yaml of rel
EmitYaml(ctx) ==
    /\ Building
    /\ doc' = [fmt |-> "yaml", ctx |-> ctx, node |-> as_release_emit_yaml(rel, ctx)]
    /\ snap' = rel
    /\ last' = [op |-> "as_release_emit_yaml", ctx |-> ctx]
    /\ UNCHANGED <<rel, rel2>>

\* as_release_load_from_yaml of the emitted mapping into a new record
ReloadFromYaml(ctx) ==
    /\ doc.fmt = "yaml"
    /\ \E ts \in YamlTimestampOutcomes(doc.node) :
          rel2' = as_release_load_from_yaml(as_release_new, ctx, doc.node, ts)
    /\ last' = [op |-> "as_release_load_from_yaml", target |-> "rel2", ctx |-> ctx,
                node |-> doc.node, had_override |-> FALSE, prior |-> as_release_new]
    /\ UNCHANGED <<rel, doc, snap>>

\* The YAML round trip: a record with locations, checksums and sizes is
\* built, emitted and reloaded.
NextYaml ==
    \/ \E kind \in ReleaseKinds : SetKind(kind)
    \/ \E version \in Versions \cup {NULL} : SetVersion(version)
    \/ \E timestamp \in Timestamps : SetTimestamp(timestamp)
    \/ \E urgency \in UrgencyKinds : SetUrgency(urgency)
    \/ SetSize(U64_2048, AS_SIZE_KIND_DOWNLOAD)
    \/ AddLocation("http://a")
    \/ AddChecksum([kind |-> "sha1", value |-> "aa"])
    \/ SetDescription("T", "de")
    \/ \E ctx \in DocContexts : EmitYaml(ctx)
    \/ \E ctx \in DocContexts : ReloadFromYaml(ctx)

SpecYaml == Init /\ [][NextYaml]_vars

----------------------------------------------------------------------------
\* The binary cache's operations.

\* as_release_to_variant of rel
ToVariant ==
    /\ Building
    /\ doc' = [fmt |-> "variant", variant |-> as_release_to_variant(rel)]
    /\ snap' = rel
    /\ last' = [op |-> "as_release_to_variant", target |-> "rel"]
    /\ UNCHANGED <<rel, rel2>>

\* as_release_set_from_variant of the cache entry into a new record
ReloadFromVariant(locale) ==
    /\ doc.fmt = "variant"
    /\ rel2' = as_release_set_from_variant(as_release_new, doc.variant, locale)
    /\ last' = [op |-> "as_release_set_from_variant", target |-> "rel2",
                locale |-> locale, status |-> "ok"]
    /\ UNCHANGED <<rel, doc, snap>>

\* as_release_to_variant of the reloaded record
ToVariantAgain ==
    /\ doc.fmt = "variant"
    /\ last.op = "as_release_set_from_variant"
    /\ last.target = "rel2"
    /\ last' = [op |-> "as_release_to_variant", target |-> "rel2",
                locale |-> last.locale, variant |-> as_release_to_variant(rel2)]
    /\ UNCHANGED <<rel, rel2, doc, snap>>

\* as_release_set_from_variant of a cache entry read from the cache, into rel;
\* when the process ends in the load, nothing of the record is observable
\* and rel is left as it was
SetFromVariant(variant, locale) ==
    /\ Building
    /\ \E status \in LookupUint64Outcomes(variant, "timestamp") :
          /\ rel' = IF status = "abort" THEN rel
                    ELSE as_release_set_from_variant(rel, variant, locale)
          /\ last' = [op |-> "as_release_set_from_variant", target |-> "rel",
                      locale |-> locale, variant |-> variant, prior |-> rel,
                      status |-> status]
    /\ Len(rel'.locations) <= MaxLocations
    /\ Len(rel'.checksums) <= MaxChecksums
    /\ UNCHANGED <<rel2, doc, snap>>

\* two checksums of one kind, and one of another kind
CacheChecksums ==
    {[kind |-> "sha1", value |-> "aa"], [kind |-> "sha1", value |-> "bb"],
     [kind |-> "sha256", value |-> "aa"]}

\* The binary cache round trip of records with every field set.
NextCache ==
    \/ SetKind(AS_RELEASE_KIND_DEVELOPMENT)
    \/ \E version \in Versions : SetVersion(version)
    \/ SetTimestamp(LONG_MAX_PLUS1)
    \/ SetUrgency(AS_URGENCY_KIND_LOW)
    \/ SetSize(U64_2048, AS_SIZE_KIND_DOWNLOAD)
    \/ SetSize(G_MAXUINT64, AS_SIZE_KIND_INSTALLED)
    \/ AddLocation("http://a")
    \/ \E cs \in CacheChecksums : AddChecksum(cs)
    \/ SetDescription("T", "de")
    \/ SetDescription("U", "C")
    \/ SetActiveLocale("de")
    \/ ToVariant
    \/ \E locale \in Locales : ReloadFromVariant(locale)
    \/ ToVariantAgain

SpecCache == Init /\ [][NextCache]_vars

----------------------------------------------------------------------------
\* Locales and descriptions: contexts are attached, the locale is overridden,
\* descriptions are stored (with a text or with NULL, for a named locale or
\* for the active one), documents are loaded, and the record goes through the
\* binary cache.

LocaleXmlInputs ==
    {[props |-> Prop("version", "1.2"), children |-> cs] :
        cs \in {<<>>,
                <<[name |-> "description", lang |-> "fr", content |-> "U"]>>,
                <<[name |-> "description", lang |-> NULL, content |-> "T"]>>}}

LocaleYamlInputs ==
    {<<YamlEntry("version", "1.2")>>,
     <<YamlEntry("version", "1.2"),
       [key |-> "description", value |-> NULL,
        localized |-> ("C" :> "T") @@ ("de" :> "U"), items |-> <<>>]>>}

NextLocale ==
    \/ \E ctx \in Contexts : SetContext(ctx)
    \/ \E locale \in Locales \cup {NULL} : SetActiveLocale(locale)
    \/ \E description \in Texts \cup {NULL}, locale \in Locales \cup {NULL} :
          SetDescription(description, locale)
    \/ \E ctx \in Contexts, node \in LocaleXmlInputs : LoadFromXml(ctx, node)
    \/ \E ctx \in Contexts, node \in LocaleYamlInputs : LoadFromYaml(ctx, node)
    \/ ToVariant
    \/ \E locale \in Locales \cup {NULL} : ReloadFromVariant(locale)
    \/ ToVariantAgain

SpecLocale == Init /\ [][NextLocale]_vars

----------------------------------------------------------------------------
\* Sizes: set by the accessor with any kind argument, by size children of a
\* release element and by the sizes of a cache entry, whatever their keys.

SizeXmlInputs ==
    {[props |-> Prop("version", "1.2"), children |-> cs] :
        cs \in {c \in XmlChildLists : \A i \in 1..Len(c) : c[i].name = "size"}}

SizeEntries ==
    {[key |-> AS_SIZE_KIND_UNKNOWN, value |-> U64_500],
     [key |-> AS_SIZE_KIND_DOWNLOAD, value |-> U64_500],
     [key |-> AS_SIZE_KIND_INSTALLED, value |-> U64_1000],
     [key |-> AS_SIZE_KIND_LAST, value |-> U64_500]}

MaxSizeEntries == 2

SizeVariantInputs ==
    {[kind |-> AS_RELEASE_KIND_STABLE, version |-> <<"1.2">>, timestamp |-> U64_1000,
      urgency |-> AS_URGENCY_KIND_UNKNOWN, description |-> <<>>, sizes |-> es] :
        es \in UNION {[1..n -> SizeEntries] : n \in 1..MaxSizeEntries}}

\* A record is populated by at most one load of each format.
NextSize ==
    \/ \E size \in Sizes, kind \in SizeKindArgs : SetSize(size, kind)
    \/ \E ctx \in DocContexts, node \in SizeXmlInputs :
          rel.context = NULL /\ LoadFromXml(ctx, node)
    \/ \E variant \in SizeVariantInputs :
          rel.active_locale_override = NULL /\ SetFromVariant(variant, "de")

SpecSize == Init /\ [][NextSize]_vars

----------------------------------------------------------------------------
\* Loading cache entries that were not written from the record: entries that
\* lack keys, loaded into a record that holds data already, once or again.

\* an entry with every key
FullEntry ==
    [kind |-> AS_RELEASE_KIND_DEVELOPMENT,
     version |-> <<"1.2">>,
     timestamp |-> U64_1000,
     urgency |-> AS_URGENCY_KIND_LOW,
     description |-> <<"T">>,
     locations |-> <<"http://a">>,
     checksums |-> <<[key |-> "sha1", value |-> "aa"]>>,
     sizes |-> <<[key |-> AS_SIZE_KIND_DOWNLOAD, value |-> U64_2048]>>]

EntryKeys == DOMAIN FullEntry

\* the keys every entry written by as_release_to_variant has
WrittenKeys == {"kind", "version", "timestamp", "urgency", "description"}

\* the keys of the entries loaded: all, all but one, those always written,
\* and none
EntryKeySets ==
    {EntryKeys, WrittenKeys, {}} \cup {EntryKeys \ {key} : key \in EntryKeys}

PartialEntries == {[key \in keys |-> FullEntry[key]] : keys \in EntryKeySets}

NextCacheLoad ==
    \/ SetKind(AS_RELEASE_KIND_UNKNOWN)
    \/ SetVersion("")
    \/ SetTimestamp(U64_2020)
    \/ SetUrgency(AS_URGENCY_KIND_MEDIUM)
    \/ \E kind \in {AS_SIZE_KIND_DOWNLOAD, AS_SIZE_KIND_INSTALLED} :
          SetSize(G_MAXUINT64, kind)
    \/ AddLocation("http://b")
    \/ AddChecksum([kind |-> "sha256", value |-> "bb"])
    \/ \E variant \in PartialEntries, locale \in {"de"} :
          SetFromVariant(variant, locale)

SpecCacheLoad == Init /\ [][NextCacheLoad]_vars

----------------------------------------------------------------------------
\* Loading release mappings whose keys come in any order.

YamlLoadEntries ==
    {YamlEntry("unix-timestamp", "500"),
     YamlEntry("unix-timestamp", "9223372036854775808"),
     YamlEntry("date", "2020-01-01"),
     YamlEntry("date", "yesterday"),
     YamlEntry("version", "1.2")}

MaxYamlEntries == 3

\* the mappings of at most MaxYamlEntries entries, no key twice
YamlLoadInputs ==
    {node \in UNION {[1..n -> YamlLoadEntries] : n \in 1..MaxYamlEntries} :
        \A i, j \in 1..Len(node) : node[i].key = node[j].key => i = j}

\* A record, given a prior timestamp, is populated by one load.
NextYamlLoad ==
    \/ \E timestamp \in Timestamps : SetTimestamp(timestamp)
    \/ \E ctx \in DocContexts, node \in YamlLoadInputs :
          rel.context = NULL /\ LoadFromYaml(ctx, node)

SpecYamlLoad == Init /\ [][NextYamlLoad]_vars

----------------------------------------------------------------------------
\* Properties of the record and its locale resolver.

\* the record the last operation acted on
Target == IF last.target = "rel" THEN rel ELSE rel2

\* the last operation attached a context: as_release_set_context, or a load
\* from XML or YAML, which calls it first
ContextAttached ==
    last.op \in {"as_release_set_context", "as_release_load_from_xml",
                 "as_release_load_from_yaml"}

\* C1: after as_release_set_context (called directly, or by a load from XML
\* or YAML) the record has no locale override, its context is the context
\* passed, and its active locale is the locale of that context, "C" when the
\* context has none.
C1_SetContextClearsOverride ==
    ContextAttached =>
        /\ Target.active_locale_override = NULL
        /\ Target.context = last.ctx
        /\ as_release_get_active_locale(Target) =
              IF ContextTable[last.ctx].locale = NULL THEN "C"
              ELSE ContextTable[last.ctx].locale

\* C1 witness: a context with locale "fr" was attached to a record that had
\* a locale override, and the active locale is "fr"
C1_Witness ==
    /\ last.op = "as_release_set_context"
    /\ last.had_override
    /\ last.ctx = "ctx_fr"
    /\ rel.active_locale_override = NULL
    /\ as_release_get_active_locale(rel) = "fr"

\* C2: the active locale is the override when there is one, else the locale
\* of the attached context when a context is attached and has a locale, else
\* "C"; it is never NULL.
C2_ActiveLocaleOrder ==
    /\ as_release_get_active_locale(rel) # NULL
    /\ rel.active_locale_override # NULL =>
          as_release_get_active_locale(rel) = rel.active_locale_override
    /\ (rel.active_locale_override = NULL /\ rel.context # NULL
            /\ ContextTable[rel.context].locale # NULL) =>
          as_release_get_active_locale(rel) = ContextTable[rel.context].locale
    /\ (rel.active_locale_override = NULL
            /\ (rel.context = NULL \/ ContextTable[rel.context].locale = NULL)) =>
          as_release_get_active_locale(rel) = "C"

\* C2 witness: an override on a record whose context has another locale
C2_Witness ==
    /\ rel.active_locale_override = "de"
    /\ rel.context = "ctx_fr"
    /\ as_release_get_active_locale(rel) = "de"

\* the description table holds a text for the locale (an entry stored with a
\* NULL text holds none)
HasText(table, locale) == locale \in DOMAIN table /\ table[locale] # NULL

\* C3: as_release_get_description returns the text stored for the active
\* locale when there is one, else the text stored for "C" when there is one,
\* else NULL; never the text of another locale.
C3_DescriptionFallback ==
    LET L == as_release_get_active_locale(rel)
        d == rel.description
    IN /\ HasText(d, L) => as_release_get_description(rel) = d[L]
       /\ (~HasText(d, L) /\ HasText(d, "C")) => as_release_get_description(rel) = d["C"]
       /\ (~HasText(d, L) /\ ~HasText(d, "C")) => as_release_get_description(rel) = NULL

\* C3 witness: the active locale "de" has no text, "C" and "fr" have
\* different ones, and the description is that of "C"
C3_Witness ==
    /\ as_release_get_active_locale(rel) = "de"
    /\ ~HasText(rel.description, "de")
    /\ HasText(rel.description, "C")
    /\ HasText(rel.description, "fr")
    /\ rel.description["fr"] # rel.description["C"]
    /\ as_release_get_description(rel) = rel.description["C"]

\* C4: as_release_set_size stores the size when the kind is Download or
\* Installed, after which as_release_get_size returns it and nothing else
\* has changed; with any other kind the record is unchanged. size[Unknown]
\* is 0 in every state reached through the accessor, the XML load and the
\* cache load.
C4_SetSizeFrame ==
    /\ [](rel.size[AS_SIZE_KIND_UNKNOWN] = U64_ZERO)
    /\ [][last'.op = "as_release_set_size" =>
            IF last'.kind \in {AS_SIZE_KIND_DOWNLOAD, AS_SIZE_KIND_INSTALLED}
            THEN /\ rel' = [rel EXCEPT !.size[last'.kind] = last'.size]
                 /\ as_release_get_size(rel', last'.kind) = last'.size
            ELSE rel' = rel]_vars

\* C4 witness: the download size was set on a record that has an installed
\* size
C4_Witness ==
    /\ last.op = "as_release_set_size"
    /\ last.kind = AS_SIZE_KIND_DOWNLOAD
    /\ last.size = U64_2048
    /\ rel.size[AS_SIZE_KIND_DOWNLOAD] = U64_2048
    /\ rel.size[AS_SIZE_KIND_INSTALLED] = G_MAXUINT64

----------------------------------------------------------------------------
\* Properties of the XML codec.

\* the last operation loaded a release element with both attributes into rel
LoadedDateAndTimestamp ==
    /\ last.op = "as_release_load_from_xml"
    /\ last.target = "rel"
    /\ XmlHasProp(last.node, "date")
    /\ XmlHasProp(last.node, "timestamp")

\* C5: when a release element carries both a date and a timestamp
\* attribute, the loaded timestamp is the value read from the timestamp
\* attribute (what atol makes of its text), whether the date is valid or
\* malformed and whichever of the two attributes comes first.
C5_TimestampAttributeWins ==
    LoadedDateAndTimestamp =>
        rel.timestamp \in atol(xmlGetProp(last.node, "timestamp"))

\* C5 witness: an element whose valid date attribute follows its timestamp
\* attribute was loaded, and the timestamp is that of the timestamp attribute
C5_Witness ==
    /\ LoadedDateAndTimestamp
    /\ xmlGetProp(last.node, "date") = "2020-01-01"
    /\ xmlGetProp(last.node, "timestamp") = "500"
    /\ \E i, j \in 1..Len(last.node.props) :
          /\ i < j
          /\ last.node.props[i].name = "timestamp"
          /\ last.node.props[j].name = "date"
    /\ rel.timestamp = U64_500

\* the last operation reloaded, into a new record, the element serialized
\* under Collection style from a record with a version
XmlRoundTripDone ==
    /\ last.op = "as_release_load_from_xml"
    /\ last.target = "rel2"
    /\ as_context_get_style(doc.ctx) = AS_FORMAT_STYLE_COLLECTION
    /\ snap.version # NULL

\* C6: the XML round trip under Collection style gives back the kind, the
\* version, the timestamp, both sizes and the locations of any record that
\* has a version.
C6_XmlRoundTrip ==
    XmlRoundTripDone =>
        /\ rel2.kind = snap.kind
        /\ rel2.version = snap.version
        /\ rel2.timestamp = snap.timestamp
        /\ rel2.size = snap.size
        /\ rel2.locations = snap.locations

\* C6, for the timestamps a long can hold: the round trip is exact.
C6_XmlRoundTripWithinLong ==
    (XmlRoundTripDone /\ ~NumGreater(snap.timestamp, LONG_MAX)) =>
        /\ rel2.kind = snap.kind
        /\ rel2.version = snap.version
        /\ rel2.timestamp = snap.timestamp
        /\ rel2.size = snap.size
        /\ rel2.locations = snap.locations

----------------------------------------------------------------------------
\* Properties of the YAML codec.

\* the last operation reloaded, into a new record, the mapping emitted under
\* Collection style
YamlRoundTripDone ==
    /\ last.op = "as_release_load_from_yaml"
    /\ last.target = "rel2"
    /\ as_context_get_style(doc.ctx) = AS_FORMAT_STYLE_COLLECTION

\* C7: the YAML round trip under Collection style gives back the kind, the
\* version, the timestamp and the urgency of any record, and the reloaded
\* record has no location, no checksum and both sizes 0 whatever the source
\* record held.
C7_YamlRoundTrip ==
    YamlRoundTripDone =>
        /\ rel2.kind = snap.kind
        /\ rel2.version = snap.version
        /\ rel2.timestamp = snap.timestamp
        /\ rel2.urgency = snap.urgency
        /\ rel2.locations = <<>>
        /\ rel2.checksums = <<>>
        /\ \A k \in 0..(AS_SIZE_KIND_LAST - 1) : rel2.size[k] = U64_ZERO

\* C7, for the timestamps a long can hold: the round trip is as claimed.
C7_YamlRoundTripWithinLong ==
    (YamlRoundTripDone /\ ~NumGreater(snap.timestamp, LONG_MAX)) =>
        /\ rel2.kind = snap.kind
        /\ rel2.version = snap.version
        /\ rel2.timestamp = snap.timestamp
        /\ rel2.urgency = snap.urgency
        /\ rel2.locations = <<>>
        /\ rel2.checksums = <<>>
        /\ \A k \in 0..(AS_SIZE_KIND_LAST - 1) : rel2.size[k] = U64_ZERO

----------------------------------------------------------------------------
\* Properties of the binary cache.

\* a cache entry of snap was loaded into the new record rel2
CacheReloaded ==
    /\ last.op = "as_release_set_from_variant"
    /\ last.target = "rel2"

\* C8: when the active locale L of the serialized record has the text T, the
\* entry's description is T; loading the entry with a locale L2 makes L2 the
\* active locale of the new record and T its description, stored for L2 and
\* for no other locale; the entry is the one of a record that has no text
\* but that of L, so it carries no text of another locale.
C8_CacheDescription ==
    LET L == as_release_get_active_locale(snap)
    IN (CacheReloaded /\ last.locale # NULL /\ HasText(snap.description, L)) =>
          /\ doc.variant.description = <<snap.description[L]>>
          /\ as_release_get_active_locale(rel2) = last.locale
          /\ as_release_get_description(rel2) = snap.description[L]
          /\ rel2.description = (last.locale :> snap.description[L])
          /\ doc.variant =
                as_release_to_variant([snap EXCEPT !.description = (L :> snap.description[L])])

\* C8 witness: a record with texts for "de" (active) and "C" went through an
\* entry that was loaded with locale "fr"
C8_Witness ==
    /\ CacheReloaded
    /\ last.locale = "fr"
    /\ as_release_get_active_locale(snap) = "de"
    /\ HasText(snap.description, "de")
    /\ HasText(snap.description, "C")
    /\ snap.description["C"] # snap.description["de"]
    /\ as_release_get_description(rel2) = snap.description["de"]

\* the record loaded from the entry was serialized again
CacheReserialized ==
    /\ last.op = "as_release_to_variant"
    /\ last.target = "rel2"

\* C9: the entry serialized from the record that was loaded from an entry
\* equals that entry in every field, whatever locale the entry was loaded
\* with.
C9_CacheIdempotent ==
    CacheReserialized =>
        /\ DOMAIN last.variant = DOMAIN doc.variant
        /\ \A key \in DOMAIN doc.variant : last.variant[key] = doc.variant[key]

\* C9 witness: a record with no version, no description, no location and
\* two checksums of one kind was loaded with its own active locale and
\* serialized again
C9_Witness ==
    /\ CacheReserialized
    /\ last.locale = as_release_get_active_locale(snap)
    /\ snap.version = NULL
    /\ as_release_get_description(snap) = NULL
    /\ snap.locations = <<>>
    /\ Len(snap.checksums) = 2
    /\ snap.checksums[1].kind = snap.checksums[2].kind
    /\ snap.checksums[1].value # snap.checksums[2].value
    /\ "locations" \notin DOMAIN doc.variant
    /\ last.variant = doc.variant

\* the serialized record holds two checksums of one kind, c1 then c2
TwoChecksumsOfOneKind ==
    /\ Len(snap.checksums) >= 2
    /\ snap.checksums[1].kind = snap.checksums[2].kind
    /\ snap.checksums[1].value # snap.checksums[2].value

\* the entries of the checksums of a cache entry that have the key
EntriesOfKind(entries, kind) ==
    LET OfKind(e) == e.key = kind
    IN SelectSeq(entries, OfKind)

\* the checksums of a record that have the kind
ChecksumsOfKind(r, kind) ==
    LET OfKind(cs) == cs.kind = kind
    IN SelectSeq(r.checksums, OfKind)

\* C10, as stated: of two checksums of one kind the entry holds that of c2
\* only, and the record loaded from it has one checksum of the kind, c2.
C10_LastWriteWins ==
    (CacheReloaded /\ TwoChecksumsOfOneKind) =>
        LET kind == snap.checksums[1].kind
        IN /\ Len(EntriesOfKind(doc.variant["checksums"], kind)) = 1
           /\ EntriesOfKind(doc.variant["checksums"], kind)[1].value = snap.checksums[2].value
           /\ Len(ChecksumsOfKind(rel2, kind)) = 1
           /\ as_release_get_checksum(rel2, kind).value = snap.checksums[2].value

\* C10, amended: the entry holds one checksum entry per checksum of the
\* record, in insertion order, also for checksums of one kind; the record
\* loaded from it has the same checksums in the same order, and
\* as_release_get_checksum returns c1, the first of the kind, as it does on
\* the serialized record.
C10_ChecksumsKeptInOrder ==
    (CacheReloaded /\ TwoChecksumsOfOneKind) =>
        LET kind == snap.checksums[1].kind
        IN /\ Len(doc.variant["checksums"]) = Len(snap.checksums)
           /\ \A i \in 1..Len(snap.checksums) :
                 /\ doc.variant["checksums"][i].key = snap.checksums[i].kind
                 /\ doc.variant["checksums"][i].value = snap.checksums[i].value
           /\ rel2.checksums = snap.checksums
           /\ as_release_get_checksum(rel2, kind).value = snap.checksums[1].value
           /\ as_release_get_checksum(snap, kind).value = snap.checksums[1].value

\* C10 witness: sha1 checksums "aa" then "bb" went through the cache and the
\* loaded record answers "aa"
C10_Witness ==
    /\ CacheReloaded
    /\ snap.checksums = <<[kind |-> "sha1", value |-> "aa"],
                          [kind |-> "sha1", value |-> "bb"]>>
    /\ Len(rel2.checksums) = 2
    /\ as_release_get_checksum(rel2, "sha1").value = "aa"

\* a cache entry was loaded into rel, or the process ended in the load
CacheLoaded ==
    /\ last.op = "as_release_set_from_variant"
    /\ last.target = "rel"

\* the fields an entry without the key leaves at 0 / Unknown
MissingScalarsAreZero ==
    /\ "kind" \notin DOMAIN last.variant => rel.kind = AS_RELEASE_KIND_UNKNOWN
    /\ "timestamp" \notin DOMAIN last.variant => rel.timestamp = U64_ZERO
    /\ "urgency" \notin DOMAIN last.variant => rel.urgency = AS_URGENCY_KIND_UNKNOWN

\* C11: the load of an entry that lacks keys completes normally, without an
\* error reported or the process ended; kind, timestamp and urgency are 0 /
\* Unknown when their key is absent.
C11_MissingKeysLoad ==
    CacheLoaded => (last.status = "ok" /\ MissingScalarsAreZero)

\* C11, for the entries that have the timestamp key: the load completes
\* normally whatever other keys are absent.
C11_MissingKeysLoadWithTimestamp ==
    (CacheLoaded /\ "timestamp" \in DOMAIN last.variant) =>
        (last.status = "ok" /\ MissingScalarsAreZero)

\* C11, when the process goes on after the failed checks: the fields of
\* the absent keys are 0 / Unknown.
C11_MissingKeysDefaults ==
    (CacheLoaded /\ last.status # "abort") => MissingScalarsAreZero

----------------------------------------------------------------------------
\* Properties of the loads' handling of fields that fail.

\* a release element was loaded into rel
XmlLoaded ==
    /\ last.op = "as_release_load_from_xml"
    /\ last.target = "rel"

\* the element has a date attribute that is no ISO 8601 date
HasMalformedDate(node) ==
    /\ xmlGetProp(node, "date") # NULL
    /\ xmlGetProp(node, "date") \notin ValidDates

\* a size child with no type, an unrecognised type or the value 0
FailingSize(child) ==
    /\ child.name = "size"
    /\ \/ child.type \notin {"download", "installed"}
       \/ g_ascii_strtoull(child.content) = U64_ZERO

\* a checksum child whose sub-load fails
FailingChecksum(child) ==
    /\ child.name = "checksum"
    /\ ~as_checksum_load_from_xml(child)

FailingChild(child) == FailingSize(child) \/ FailingChecksum(child)

\* the children of the element that satisfy the test
ChildrenThat(node, Test(_)) == SelectSeq(node.children, Test)

\* the element without its malformed date and its failing children
WithoutFailures(node) ==
    LET KeptProp(p) == ~(p.name = "date" /\ HasMalformedDate(node))
        KeptChild(child) == ~FailingChild(child)
    IN [props |-> SelectSeq(node.props, KeptProp),
        children |-> SelectSeq(node.children, KeptChild)]

\* the element has a field that fails
HasFailure(node) ==
    \/ HasMalformedDate(node)
    \/ \E i \in 1..Len(node.children) : FailingChild(node.children[i])

\* C12: a malformed date leaves the timestamp at its prior value (unless a
\* timestamp attribute sets it), failing size children leave the sizes
\* alone, failing checksum children add no checksum, everything else of the
\* element is loaded as if the failing fields were not there, and the load
\* returns TRUE.
C12_XmlFailuresAreLocal ==
    LET node == last.node
        prior == last.prior
        IsSize(child) == child.name = "size"
        IsChecksum(child) == child.name = "checksum"
        IsLocation(child) == child.name = "location"
    IN (XmlLoaded /\ HasFailure(node)) =>
          /\ last.ret = TRUE
          /\ (HasMalformedDate(node) /\ ~XmlHasProp(node, "timestamp")) =>
                rel.timestamp = prior.timestamp
          /\ ChildrenThat(node, IsSize) = ChildrenThat(node, FailingSize) =>
                rel.size = prior.size
          /\ ChildrenThat(node, IsChecksum) = ChildrenThat(node, FailingChecksum) =>
                rel.checksums = prior.checksums
          /\ rel.version = xmlGetProp(node, "version")
          /\ Len(rel.locations) =
                Len(prior.locations) + Len(ChildrenThat(node, IsLocation))
          /\ Len(rel.checksums) + Len(ChildrenThat(node, FailingChecksum)) =
                Len(prior.checksums) + Len(ChildrenThat(node, IsChecksum))
          /\ rel = as_release_load_from_xml(prior, last.ctx, WithoutFailures(node),
                                            rel.timestamp)

\* C12 witness: an element with a malformed date, a checksum that fails and
\* a location was loaded into a record with timestamp 1000, which kept the
\* timestamp and got the version, the urgency and the location
C12_Witness ==
    /\ XmlLoaded
    /\ HasMalformedDate(last.node)
    /\ Len(last.node.children) = 2
    /\ FailingChecksum(last.node.children[1])
    /\ last.node.children[2].name = "location"
    /\ last.prior.timestamp = U64_1000
    /\ rel.timestamp = U64_1000
    /\ rel.version = "1.2"
    /\ rel.urgency = AS_URGENCY_KIND_LOW
    /\ rel.locations = <<"http://a">>
    /\ rel.checksums = <<>>

----------------------------------------------------------------------------
\* Properties of the cache's description when the active locale has no text.

\* the entry of a record whose active locale has no text but whose "C" has
\* one was loaded into the new record rel2 with a locale
FallbackReloaded ==
    /\ CacheReloaded
    /\ last.locale # NULL
    /\ ~HasText(snap.description, as_release_get_active_locale(snap))
    /\ HasText(snap.description, "C")

\* C13, as stated: the entry holds the text of "C", and the record loaded
\* with locale L2 has it as the text of L2 and has no "C" entry.
C13_FallbackRelabelled ==
    FallbackReloaded =>
        /\ doc.variant.description = <<snap.description["C"]>>
        /\ HasText(rel2.description, last.locale)
        /\ rel2.description[last.locale] = snap.description["C"]
        /\ "C" \notin DOMAIN rel2.description

\* C13, amended: the entry holds the text of "C", and the record loaded with
\* locale L2 has it as the text of L2 and has no other entry; it has a "C"
\* entry exactly when L2 is "C".
C13_FallbackStoredForReloadLocale ==
    FallbackReloaded =>
        /\ doc.variant.description = <<snap.description["C"]>>
        /\ rel2.description = (last.locale :> snap.description["C"])
        /\ ("C" \in DOMAIN rel2.description) <=> (last.locale = "C")

\* C13 witness: a record with active locale "de" and a text for "C" only
\* was reloaded with locale "fr", and the text is that of "fr"
C13_Witness ==
    /\ FallbackReloaded
    /\ as_release_get_active_locale(snap) = "de"
    /\ last.locale = "fr"
    /\ rel2.description = ("fr" :> snap.description["C"])
    /\ as_release_get_description(rel2) = snap.description["C"]

----------------------------------------------------------------------------
\* Properties of the YAML load's timestamp.

\* a release mapping was loaded into rel
YamlLoaded ==
    /\ last.op = "as_release_load_from_yaml"
    /\ last.target = "rel"

\* the position of the key in the mapping, 0 when the mapping has no such key
KeyIndex(node, key) ==
    IF \E i \in 1..Len(node) : node[i].key = key
    THEN CHOOSE i \in 1..Len(node) : node[i].key = key
    ELSE 0

\* C14: with unix-timestamp and a valid date in one mapping the loaded
\* timestamp is that of the later key; a malformed date changes nothing:
\* the timestamp is that of unix-timestamp when there is one, the prior one
\* otherwise.
C14_YamlLaterKeyWins ==
    LET node == last.node
        t == KeyIndex(node, "unix-timestamp")
        d == KeyIndex(node, "date")
    IN (YamlLoaded /\ d # 0) =>
          IF node[d].value \in ValidDates
          THEN /\ (t # 0 /\ t < d) => rel.timestamp = g_date_time_to_unix(node[d].value)
               /\ (t # 0 /\ d < t) => rel.timestamp \in atol(node[t].value)
          ELSE /\ t # 0 => rel.timestamp \in atol(node[t].value)
               /\ t = 0 => rel.timestamp = last.prior.timestamp

\* C14 witness: date 2020-01-01 after unix-timestamp 500 gave the date's
\* time
C14_Witness ==
    /\ YamlLoaded
    /\ KeyIndex(last.node, "unix-timestamp") = 1
    /\ KeyIndex(last.node, "date") = 2
    /\ last.node[1].value = "500"
    /\ last.node[2].value = "2020-01-01"
    /\ rel.timestamp = g_date_time_to_unix("2020-01-01")
    /\ rel.timestamp # U64_500

\* C14 witness of the other order: unix-timestamp 500 after date 2020-01-01
\* gave 500
C14_WitnessTimestampLast ==
    /\ YamlLoaded
    /\ KeyIndex(last.node, "date") = 1
    /\ KeyIndex(last.node, "unix-timestamp") = 2
    /\ last.node[1].value = "2020-01-01"
    /\ last.node[2].value = "500"
    /\ rel.timestamp = U64_500

----------------------------------------------------------------------------
\* Properties of the cache load into a record that holds data.

\* the value of a key of the entry, and a default for an absent key
EntryValue(variant, key, default) ==
    IF key \in DOMAIN variant THEN variant[key] ELSE default

\* an entry that has the timestamp key, as every entry written by
\* as_release_to_variant has, was loaded into rel
EntryLoaded ==
    /\ CacheLoaded
    /\ "timestamp" \in DOMAIN last.variant

\* C15: the load replaces kind, version, timestamp and urgency by those of
\* the entry, appends the entry's locations and checksums to those the
\* record had, and leaves a size alone when the entry has none of its kind.
C15_CacheLoadAccumulates ==
    LET v == last.variant
        prior == last.prior
        locations == EntryValue(v, "locations", <<>>)
        checksums == EntryValue(v, "checksums", <<>>)
        sizes == EntryValue(v, "sizes", <<>>)
    IN EntryLoaded =>
          /\ "kind" \in DOMAIN v => rel.kind = v.kind
          /\ "version" \in DOMAIN v =>
                rel.version = IF v.version = <<>> THEN NULL ELSE v.version[1]
          /\ rel.timestamp = v.timestamp
          /\ "urgency" \in DOMAIN v => rel.urgency = v.urgency
          /\ rel.locations = prior.locations \o locations
          /\ Len(rel.checksums) = Len(prior.checksums) + Len(checksums)
          /\ \A i \in 1..Len(prior.checksums) : rel.checksums[i] = prior.checksums[i]
          /\ \A i \in 1..Len(checksums) :
                /\ rel.checksums[Len(prior.checksums) + i].kind = checksums[i].key
                /\ rel.checksums[Len(prior.checksums) + i].value = checksums[i].value
          /\ \A kind \in {AS_SIZE_KIND_DOWNLOAD, AS_SIZE_KIND_INSTALLED} :
                (\A i \in 1..Len(sizes) : sizes[i].key # kind) =>
                    rel.size[kind] = prior.size[kind]

\* C15 witness: the full entry was loaded into a record that had been loaded
\* from it before and had other scalars since: the scalars are the entry's
\* again, the location and the checksum are there twice, and the installed
\* size, of which the entry has none, is the one set before
C15_Witness ==
    /\ EntryLoaded
    /\ last.variant = FullEntry
    /\ last.prior.kind = AS_RELEASE_KIND_UNKNOWN
    /\ last.prior.timestamp = U64_2020
    /\ last.prior.locations = FullEntry.locations
    /\ Len(last.prior.checksums) = 1
    /\ last.prior.size[AS_SIZE_KIND_INSTALLED] = G_MAXUINT64
    /\ rel.kind = AS_RELEASE_KIND_DEVELOPMENT
    /\ rel.timestamp = U64_1000
    /\ rel.locations = FullEntry.locations \o FullEntry.locations
    /\ Len(rel.checksums) = 2
    /\ rel.checksums[1] = rel.checksums[2]
    /\ rel.size[AS_SIZE_KIND_INSTALLED] = G_MAXUINT64

============================================================================
